---- MODULE Spec2Model ----
(***************************************************************************)
(* Model of meilies/src/command.rs: the conversion between RESP wire       *)
(* values and the Command enum (Into<RespValue> for Command, and           *)
(* FromResp for Command).                                                  *)
(*                                                                         *)
(* Bytes are naturals 0..255, a Vec<u8> / String / &str is a sequence of   *)
(* bytes (a String always holds valid UTF-8).  from_resp is modelled step  *)
(* by step, in the order in which the code consumes its iterator.          *)
(***************************************************************************)
EXTENDS Integers, Sequences, FiniteSets, TLC

\* ------------------------------------------------------------------ bounds

\* Largest number of elements after the command name in a generated array,
\* and largest number of streams in a generated Subscribe command.
MaxArgs == 3

\* -------------------------------------------------------------- byte texts

lit_publish   == <<112, 117, 98, 108, 105, 115, 104>>
lit_subscribe == <<115, 117, 98, 115, 99, 114, 105, 98, 101>>

Colon == <<58>>

\* ------------------------------------------------- std: UTF-8 and lowercase

IsCont(b) == b >= 128 /\ b <= 191

\* Utf8Error { valid_up_to, error_len }; error_len = 0 stands for None
\* (unexpected end of input).  valid = TRUE is Ok(&str).
Utf8Ok == [valid |-> TRUE, valid_up_to |-> 0, error_len |-> 0]

Utf8Err(upto, len) == [valid |-> FALSE, valid_up_to |-> upto, error_len |-> len]

\* Width of the UTF-8 sequence announced by a first byte, 0 if it cannot
\* start a sequence.
Utf8CharWidth(b) ==
    IF b < 128 THEN 1
    ELSE IF b >= 194 /\ b <= 223 THEN 2
    ELSE IF b >= 224 /\ b <= 239 THEN 3
    ELSE IF b >= 240 /\ b <= 244 THEN 4
    ELSE 0

\* The range allowed for the second byte of a 3- or 4-byte sequence.
SecondOk(first, second) ==
    CASE first = 224 -> second >= 160 /\ second <= 191
      [] first = 237 -> second >= 128 /\ second <= 159
      [] first = 240 -> second >= 144 /\ second <= 191
      [] first = 244 -> second >= 128 /\ second <= 143
      [] OTHER       -> IsCont(second)

RECURSIVE Utf8Scan(_, _)
Utf8Scan(b, i) ==
    IF i > Len(b) THEN Utf8Ok
    ELSE LET w == Utf8CharWidth(b[i]) IN
         IF w = 0 THEN Utf8Err(i - 1, 1)
         ELSE IF w = 1 THEN Utf8Scan(b, i + 1)
         ELSE IF i + 1 > Len(b) THEN Utf8Err(i - 1, 0)
         ELSE IF ~SecondOk(b[i], b[i + 1]) THEN Utf8Err(i - 1, 1)
         ELSE IF w = 2 THEN Utf8Scan(b, i + 2)
         ELSE IF i + 2 > Len(b) THEN Utf8Err(i - 1, 0)
         ELSE IF ~IsCont(b[i + 2]) THEN Utf8Err(i - 1, 2)
         ELSE IF w = 3 THEN Utf8Scan(b, i + 3)
         ELSE IF i + 3 > Len(b) THEN Utf8Err(i - 1, 0)
         ELSE IF ~IsCont(b[i + 3]) THEN Utf8Err(i - 1, 3)
         ELSE Utf8Scan(b, i + 4)

\* str::from_utf8(&bytes)
from_utf8(b) == Utf8Scan(b, 1)

\* The chars (code points) of a valid UTF-8 text.
RECURSIVE Chars(_)
Chars(s) ==
    IF s = <<>> THEN <<>>
    ELSE LET w  == Utf8CharWidth(s[1])
             cp == CASE w = 1 -> s[1]
                     [] w = 2 -> (s[1] - 192) * 64 + (s[2] - 128)
                     [] w = 3 -> (s[1] - 224) * 4096 + (s[2] - 128) * 64 + (s[3] - 128)
                     [] OTHER -> (s[1] - 240) * 262144 + (s[2] - 128) * 4096
                                   + (s[3] - 128) * 64 + (s[4] - 128)
         IN <<cp>> \o Chars(SubSeq(s, w + 1, Len(s)))

\* The UTF-8 encoding of one char.
EncodeChar(cp) ==
    IF cp < 128 THEN <<cp>>
    ELSE IF cp < 2048 THEN <<192 + (cp \div 64), 128 + (cp % 64)>>
    ELSE IF cp < 65536 THEN <<224 + (cp \div 4096), 128 + ((cp \div 64) % 64), 128 + (cp % 64)>>
    ELSE <<240 + (cp \div 262144), 128 + ((cp \div 4096) % 64),
           128 + ((cp \div 64) % 64), 128 + (cp % 64)>>

\* char::to_lowercase on the chars the inputs are made of: U+0000..U+00FF,
\* U+212A KELVIN SIGN and U+212B ANGSTROM SIGN.  It is the Unicode mapping:
\* A-Z, the Latin-1 capitals (all of U+00C0..U+00DE but the multiplication
\* sign U+00D7) and the two letter-like signs have a lowercase; nothing else
\* in that range does.
LowerChar(cp) ==
    IF cp >= 65 /\ cp <= 90 THEN cp + 32
    ELSE IF cp >= 192 /\ cp <= 222 /\ cp # 215 THEN cp + 32
    ELSE IF cp = 8490 THEN 107
    ELSE IF cp = 8491 THEN 229
    ELSE cp

RECURSIVE EncodeChars(_)
EncodeChars(cs) ==
    IF cs = <<>> THEN <<>> ELSE EncodeChar(cs[1]) \o EncodeChars(Tail(cs))

\* str::to_lowercase
to_lowercase(s) ==
    LET cs == Chars(s) IN EncodeChars([i \in 1..Len(cs) |-> LowerChar(cs[i])])

\* ---------------------------------------------- crate::resp (collaborator)

\* A RespValue: its tag, the bytes of a bulk string, the items of an array.
bulk_string(b) == [type |-> "BulkString", bytes |-> b, items |-> <<>>]

Array(items) == [type |-> "Array", bytes |-> <<>>, items |-> items]

Integer == [type |-> "Integer", bytes |-> <<>>, items |-> <<>>]

NoValue == [type |-> "None", bytes |-> <<>>, items |-> <<>>]

\* Vec::<Vec<u8>>::from_resp: the byte strings of an array whose items are
\* all bulk strings; an error for any other value.
VecFromResp(v) ==
    IF v.type = "Array" /\ \A i \in 1..Len(v.items) : v.items[i].type = "BulkString"
    THEN [ok |-> TRUE, val |-> [i \in 1..Len(v.items) |-> v.items[i].bytes]]
    ELSE [ok |-> FALSE, val |-> <<>>]

\* -------------------------------------------- crate::stream (collaborator)

\* Error values: type names the enum, variant its case, inner the wrapped
\* error (a sequence of at most one error value).
NoStreamError == [type |-> "None", variant |-> "None", inner |-> <<>>]

StreamNameError(variant) ==
    [type |-> "StreamNameError", variant |-> variant, inner |-> <<>>]

ParseStreamError(variant, inner) ==
    [type |-> "ParseStreamError", variant |-> variant, inner |-> inner]

\* StartReadFrom
End == [kind |-> "End", n |-> 0]

EventNumber(n) == [kind |-> "EventNumber", n |-> n]

IsDigit(b) == b >= 48 /\ b <= 57

\* Index of the first ':' of a text, 0 when it has none.
FirstColon(s) ==
    IF \E i \in 1..Len(s) : s[i] = 58
    THEN CHOOSE i \in 1..Len(s) : s[i] = 58 /\ \A j \in 1..(i - 1) : s[j] # 58
    ELSE 0

\* StreamName::from_str: a name is a non-empty text without ':'.
StreamNameFromStr(s) ==
    IF s = <<>>
    THEN [ok |-> FALSE, val |-> <<>>, err |-> StreamNameError("EmptyName")]
    ELSE IF FirstColon(s) # 0
    THEN [ok |-> FALSE, val |-> <<>>, err |-> StreamNameError("ContainsColon")]
    ELSE [ok |-> TRUE, val |-> s, err |-> NoStreamError]

\* StreamName::into_bytes
into_bytes(name) == name

RECURSIVE ParseDecimal(_)
ParseDecimal(s) ==
    IF s = <<>> THEN 0
    ELSE 10 * ParseDecimal(SubSeq(s, 1, Len(s) - 1)) + (s[Len(s)] - 48)

RECURSIVE FormatDecimal(_)
FormatDecimal(n) ==
    IF n < 10 THEN <<48 + n>> ELSE FormatDecimal(n \div 10) \o <<48 + (n % 10)>>

NoStream == [name |-> <<>>, from |-> End]

\* Stream::from_str: "name" reads from the end, "name:N" from event N.
StreamFromStr(s) ==
    LET c    == FirstColon(s)
        name == StreamNameFromStr(IF c = 0 THEN s ELSE SubSeq(s, 1, c - 1))
        rest == IF c = 0 THEN <<>> ELSE SubSeq(s, c + 1, Len(s))
    IN IF ~name.ok
       THEN [ok |-> FALSE, val |-> NoStream,
             err |-> ParseStreamError("StreamNameError", <<name.err>>)]
       ELSE IF c = 0
       THEN [ok |-> TRUE, val |-> [name |-> name.val, from |-> End], err |-> NoStreamError]
       ELSE IF rest = <<>> \/ \E i \in 1..Len(rest) : ~IsDigit(rest[i])
       THEN [ok |-> FALSE, val |-> NoStream,
             err |-> ParseStreamError("StartReadFromError", <<>>)]
       ELSE [ok |-> TRUE,
             val |-> [name |-> name.val, from |-> EventNumber(ParseDecimal(rest))],
             err |-> NoStreamError]

\* Stream::to_string (Display)
to_string(stream) ==
    IF stream.from.kind = "End" THEN stream.name
    ELSE stream.name \o Colon \o FormatDecimal(stream.from.n)

\* ------------------------------------------------------------ command.rs

\* enum Command
Publish(stream, event) ==
    [variant |-> "Publish", stream |-> stream, event |-> event, streams |-> <<>>]

Subscribe(streams) ==
    [variant |-> "Subscribe", stream |-> <<>>, event |-> <<>>, streams |-> streams]

NoCommand == [variant |-> "None", stream |-> <<>>, event |-> <<>>, streams |-> <<>>]

\* Mutant of IntoPublish: the event is written before the stream.
IntoPublishSwapped(c) ==
    Array(<<bulk_string(lit_publish), bulk_string(c.event),
            bulk_string(into_bytes(c.stream))>>)

\* impl Into<RespValue> for Command, the Publish arm
IntoPublish(c) ==
    Array(<<bulk_string(lit_publish), bulk_string(into_bytes(c.stream)),
            bulk_string(c.event)>>)

\* Mutant of IntoSubscribe: each stream is written as its name alone.
IntoSubscribeNames(c) ==
    Array(<<bulk_string(lit_subscribe)>>
          \o [i \in 1..Len(c.streams) |-> bulk_string(c.streams[i].name)])

\* impl Into<RespValue> for Command, the Subscribe arm
IntoSubscribe(c) ==
    Array(<<bulk_string(lit_subscribe)>>
          \o [i \in 1..Len(c.streams) |-> bulk_string(to_string(c.streams[i]))])

\* impl Into<RespValue> for Command
Into(c) == IF c.variant = "Publish" THEN IntoPublish(c) ELSE IntoSubscribe(c)

\* enum RespCommandConvertError
NoError ==
    [kind |-> "None", name |-> <<>>, expected |-> 0, utf8 |-> Utf8Ok,
     stream |-> NoStreamError]

InvalidRespType == [NoError EXCEPT !.kind = "InvalidRespType"]

MissingCommandName == [NoError EXCEPT !.kind = "MissingCommandName"]

UnknownCommand(name) == [NoError EXCEPT !.kind = "UnknownCommand", !.name = name]

InvalidStream(e) == [NoError EXCEPT !.kind = "InvalidStream", !.stream = e]

InvalidNumberOfArguments(expected) ==
    [NoError EXCEPT !.kind = "InvalidNumberOfArguments", !.expected = expected]

InvalidUtf8String(e) == [NoError EXCEPT !.kind = "InvalidUtf8String", !.utf8 = e]

\* impl From<str::Utf8Error> for RespCommandConvertError
FromUtf8Error(e) == InvalidUtf8String(e)

\* impl From<ParseStreamError> for RespCommandConvertError
FromParseStreamError(e) == InvalidStream(e)

\* Mutant of FromStreamNameError: the StreamNameError is dropped.
FromStreamNameErrorDropped(e) == InvalidStream(ParseStreamError("StreamNameError", <<>>))

\* impl From<StreamNameError> for RespCommandConvertError
FromStreamNameError(e) == InvalidStream(ParseStreamError("StreamNameError", <<e>>))

\* Result<Command, RespCommandConvertError>
Ok(c) == [ok |-> TRUE, cmd |-> c, err |-> NoError]

Err(e) == [ok |-> FALSE, cmd |-> NoCommand, err |-> e]

NoResult == [ok |-> FALSE, cmd |-> NoCommand, err |-> NoError]

\* ----------------------------------------------------------------- inputs

\* First elements of the generated arrays: "publish", "PUBLISH", "PuBLish",
\* "subscribe", "SUBSCRIBE", "Ping", "PING", U+00C9 (E acute, capital), U+212A
\* (Kelvin sign), the invalid byte FF, "P" followed by a truncated two-byte
\* sequence, and the empty text.
CommandNames ==
    { lit_publish, <<80, 85, 66, 76, 73, 83, 72>>, <<80, 117, 66, 76, 105, 115, 104>>,
      lit_subscribe, <<83, 85, 66, 83, 67, 82, 73, 66, 69>>,
      <<80, 105, 110, 103>>, <<80, 73, 78, 71>>, <<195, 137>>, <<226, 132, 170>>, <<255>>, <<80, 195>>, <<>> }

\* Further elements: "a", "B", "a:12", "a:x", the empty text and the
\* invalid byte FF.
ArgBytes == { <<97>>, <<66>>, <<97, 58, 49, 50>>, <<97, 58, 120>>, <<>>, <<255>> }

SeqsUpTo(S, n) == UNION { [1..k -> S] : k \in 0..n }

ArgValues == { bulk_string(b) : b \in ArgBytes } \cup { Integer }

\* The wire values handed to from_resp: arrays of a first element and up to
\* MaxArgs further ones, the empty array, and two values that are no array.
WireValues ==
    { Array(<<first>> \o rest) :
        first \in { bulk_string(b) : b \in CommandNames } \cup { Integer },
        rest \in SeqsUpTo(ArgValues, MaxArgs) }
    \cup { Array(<<>>), bulk_string(lit_publish), Integer }

\* The &str among them: the parsers of crate::stream take texts only.
ArgTexts == { b \in ArgBytes : from_utf8(b).valid }

\* The values of StreamName and Stream: what their parsers construct.
StreamNames == { StreamNameFromStr(t).val : t \in { x \in ArgTexts : StreamNameFromStr(x).ok } }

Streams == { StreamFromStr(t).val : t \in { x \in ArgTexts : StreamFromStr(x).ok } }

\* The commands handed to into.
Commands ==
    { Publish(n, e) : n \in StreamNames, e \in ArgBytes }
    \cup { Subscribe(ss) : ss \in SeqsUpTo(Streams, MaxArgs) }

\* ------------------------------------------------------------------ state

VARIABLES
    cmd,        \* the Command handed to into, NoCommand when none was
    value,      \* the RespValue handed to from_resp
    args,       \* what is left of the drained argument vector
    command,    \* the lowercased command name
    streams,    \* the streams collected by the subscribe arm
    inspected,  \* positions (1 = command name) of the elements read as text so far
    result,     \* what from_resp returned
    out,        \* the RespValue obtained by converting the returned Command back
    prev,       \* an earlier from_resp call on the same array, its name in another case
    pc

vars == <<cmd, value, args, command, streams, inspected, result, out, prev, pc>>

NoPrev == [set |-> FALSE, value |-> NoValue, result |-> NoResult]

\* Position in the wire array of the element at the head of args.
Position == Len(value.items) - Len(args) + 1

Init ==
    /\ \/ cmd \in Commands /\ value = NoValue /\ pc = "into"
       \/ cmd = NoCommand /\ value \in WireValues /\ pc = "from_resp"
    /\ args = <<>>
    /\ command = <<>>
    /\ streams = <<>>
    /\ inspected = <<>>
    /\ result = NoResult
    /\ out = NoValue
    /\ prev = NoPrev

\* ---------------------------------------------------------------- actions

\* Command -> RespValue, whose result is then handed to from_resp.
IntoRespValue ==
    /\ pc = "into"
    /\ value' = Into(cmd)
    /\ pc' = "from_resp"
    /\ UNCHANGED <<cmd, args, command, streams, inspected, result, out, prev>>

\* Mutant of ArgsOf: a value of the wrong shape is reported as an array
\* without a command name.
ArgsOfMissing(v) ==
    LET r == VecFromResp(v)
    IN IF r.ok THEN [ok |-> TRUE, args |-> r.val, result |-> NoResult]
       ELSE [ok |-> FALSE, args |-> <<>>, result |-> Err(MissingCommandName)]

\* let mut args = match Vec::<Vec<u8>>::from_resp(value) { ... }
ArgsOf(v) ==
    LET r == VecFromResp(v)
    IN IF r.ok THEN [ok |-> TRUE, args |-> r.val, result |-> NoResult]
       ELSE [ok |-> FALSE, args |-> <<>>, result |-> Err(InvalidRespType)]

FromRespArgs ==
    /\ pc = "from_resp"
    /\ LET r == ArgsOf(value)
       IN /\ args' = r.args
          /\ result' = r.result
          /\ pc' = IF r.ok THEN "command" ELSE "done"
    /\ UNCHANGED <<cmd, value, command, streams, inspected, out, prev>>

\* Mutant of CommandOf: the name is not lowercased.
CommandOfNoLowercase(a) ==
    IF a = <<>> THEN [ok |-> FALSE, command |-> <<>>, result |-> Err(MissingCommandName)]
    ELSE LET u == from_utf8(Head(a))
         IN IF ~u.valid
            THEN [ok |-> FALSE, command |-> <<>>, result |-> Err(FromUtf8Error(u))]
            ELSE [ok |-> TRUE, command |-> Head(a), result |-> NoResult]

\* let command = match args.next() { ... }
CommandOf(a) ==
    IF a = <<>> THEN [ok |-> FALSE, command |-> <<>>, result |-> Err(MissingCommandName)]
    ELSE LET u == from_utf8(Head(a))
         IN IF ~u.valid
            THEN [ok |-> FALSE, command |-> <<>>, result |-> Err(FromUtf8Error(u))]
            ELSE [ok |-> TRUE, command |-> to_lowercase(Head(a)), result |-> NoResult]

NextCommand ==
    /\ pc = "command"
    /\ LET r == CommandOf(args)
       IN /\ command' = r.command
          /\ result' = r.result
          /\ pc' = IF r.ok THEN "match" ELSE "done"
    /\ inspected' = IF args = <<>> THEN inspected ELSE Append(inspected, Position)
    /\ args' = IF args = <<>> THEN args ELSE Tail(args)
    /\ UNCHANGED <<cmd, value, streams, out, prev>>

\* match command.as_str() { "publish" => .., "subscribe" => .., _unknown => .. }
MatchArm(c) ==
    IF c = lit_publish THEN "publish"
    ELSE IF c = lit_subscribe THEN "subscribe"
    ELSE "unknown"

MatchCommand ==
    /\ pc = "match"
    /\ LET arm == MatchArm(command)
       IN IF arm = "unknown"
          THEN /\ result' = Err(UnknownCommand(command))
               /\ pc' = "done"
          ELSE /\ result' = result
               /\ pc' = arm
    /\ UNCHANGED <<cmd, value, args, command, streams, inspected, out, prev>>

\* Mutant of PublishOf: elements after the event are ignored.
PublishOfAtLeastTwo(a) ==
    IF Len(a) >= 2
    THEN LET u == from_utf8(a[1])
             n == StreamNameFromStr(a[1])
         IN IF ~u.valid THEN Err(FromUtf8Error(u))
            ELSE IF ~n.ok THEN Err(FromStreamNameError(n.err))
            ELSE Ok(Publish(n.val, a[2]))
    ELSE Err(InvalidNumberOfArguments(2))

\* Mutant of PublishOf: the event is read as text too.
PublishOfTextEvent(a) ==
    IF Len(a) = 2
    THEN LET u == from_utf8(a[1])
             n == StreamNameFromStr(a[1])
             e == from_utf8(a[2])
         IN IF ~u.valid THEN Err(FromUtf8Error(u))
            ELSE IF ~n.ok THEN Err(FromStreamNameError(n.err))
            ELSE IF ~e.valid THEN Err(FromUtf8Error(e))
            ELSE Ok(Publish(n.val, a[2]))
    ELSE Err(InvalidNumberOfArguments(2))

\* The "publish" arm: match (args.next(), args.next(), args.next()) { ... }
PublishOf(a) ==
    IF Len(a) = 2
    THEN LET u == from_utf8(a[1])
             n == StreamNameFromStr(a[1])
         IN IF ~u.valid THEN Err(FromUtf8Error(u))
            ELSE IF ~n.ok THEN Err(FromStreamNameError(n.err))
            ELSE Ok(Publish(n.val, a[2]))
    ELSE Err(InvalidNumberOfArguments(2))

PublishArm ==
    /\ pc = "publish"
    /\ result' = PublishOf(args)
    /\ inspected' = IF Len(args) = 2 THEN Append(inspected, Position) ELSE inspected
    /\ args' = SubSeq(args, 4, Len(args))
    /\ pc' = "done"
    /\ UNCHANGED <<cmd, value, command, streams, out, prev>>

\* The "subscribe" arm, one turn of: for bytes in args { ... }
StreamOf(bytes) ==
    LET u == from_utf8(bytes)
        s == StreamFromStr(bytes)
    IN IF ~u.valid THEN [ok |-> FALSE, stream |-> NoStream, result |-> Err(FromUtf8Error(u))]
       ELSE IF ~s.ok
       THEN [ok |-> FALSE, stream |-> NoStream, result |-> Err(FromParseStreamError(s.err))]
       ELSE [ok |-> TRUE, stream |-> s.val, result |-> NoResult]

\* Mutant of NextArg: the loop takes the elements from the back.
NextArgLast(a) == Len(a)

\* The element the loop takes from the iterator.
NextArg(a) == 1

\* Mutant of SubscribeArm: the loop goes on after a failure and returns the
\* last error it met.
SubscribeArmNoShortCircuit ==
    /\ pc = "subscribe"
    /\ IF args = <<>>
       THEN /\ result' = IF result.err.kind = "None" THEN Ok(Subscribe(streams)) ELSE result
            /\ pc' = "done"
            /\ UNCHANGED <<args, streams, inspected>>
       ELSE LET r == StreamOf(Head(args))
            IN /\ inspected' = Append(inspected, Position)
               /\ args' = Tail(args)
               /\ streams' = IF r.ok THEN Append(streams, r.stream) ELSE streams
               /\ result' = IF r.ok THEN result ELSE r.result
               /\ UNCHANGED pc
    /\ UNCHANGED <<cmd, value, command, out, prev>>

SubscribeArm ==
    /\ pc = "subscribe"
    /\ IF args = <<>>
       THEN /\ result' = Ok(Subscribe(streams))
            /\ pc' = "done"
            /\ UNCHANGED <<args, streams, inspected>>
       ELSE LET k == NextArg(args)
                r == StreamOf(args[k])
            IN /\ inspected' = Append(inspected, Position + k - 1)
               /\ args' = [i \in 1..(Len(args) - 1) |-> IF i < k THEN args[i] ELSE args[i + 1]]
               /\ IF r.ok
                  THEN /\ streams' = Append(streams, r.stream)
                       /\ UNCHANGED <<result, pc>>
                  ELSE /\ result' = r.result
                       /\ pc' = "done"
                       /\ UNCHANGED streams
    /\ UNCHANGED <<cmd, value, command, out, prev>>

\* The returned Command converted back into a RespValue.
ReEncode ==
    /\ pc = "done"
    /\ result.ok
    /\ out' = Into(result.cmd)
    /\ pc' = "encoded"
    /\ UNCHANGED <<cmd, value, args, command, streams, inspected, result, prev>>

\* b is a with some ASCII letters in the other case.
IsCaseVariant(a, b) ==
    /\ Len(a) = Len(b)
    /\ \A i \in 1..Len(a) :
          \/ a[i] = b[i]
          \/ a[i] >= 65 /\ a[i] <= 90 /\ b[i] = a[i] + 32
          \/ a[i] >= 97 /\ a[i] <= 122 /\ b[i] = a[i] - 32

\* A second from_resp call, on the same array with its command name in
\* another case; prev keeps the first call's array and result.
Recase ==
    /\ pc = "done"
    /\ ~prev.set
    /\ cmd = NoCommand
    /\ value.type = "Array" /\ value.items # <<>>
    /\ value.items[1].type = "BulkString"
    /\ \E n \in CommandNames :
          /\ n # value.items[1].bytes
          /\ IsCaseVariant(value.items[1].bytes, n)
          /\ value' = [value EXCEPT !.items[1] = bulk_string(n)]
    /\ prev' = [set |-> TRUE, value |-> value, result |-> result]
    /\ args' = <<>>
    /\ command' = <<>>
    /\ streams' = <<>>
    /\ inspected' = <<>>
    /\ result' = NoResult
    /\ pc' = "from_resp"
    /\ UNCHANGED <<cmd, out>>

Next ==
    \/ IntoRespValue
    \/ FromRespArgs
    \/ NextCommand
    \/ MatchCommand
    \/ PublishArm
    \/ SubscribeArm
    \/ ReEncode
    \/ Recase

Spec == Init /\ [][Next]_vars

\* ------------------------------------------------------------- properties

\* from_resp has returned.
Done == pc \in {"done", "encoded"}

\* The wire value is an array of bulk strings.
IsBulkArray(v) ==
    v.type = "Array" /\ \A i \in 1..Len(v.items) : v.items[i].type = "BulkString"

\* The wire value is a non-empty array of bulk strings: it has a command
\* name, Name, and NArgs further elements Arg(1) .. Arg(NArgs).
HasName == IsBulkArray(value) /\ value.items # <<>>

Name == value.items[1].bytes

NArgs == Len(value.items) - 1

Arg(i) == value.items[i + 1].bytes

IsUtf8(b) == from_utf8(b).valid

\* A subscribe argument that is no valid UTF-8 or no stream specifier.
BadArg(i) == ~IsUtf8(Arg(i)) \/ ~StreamFromStr(Arg(i)).ok

\* The ASCII-only lowercase rule: A-Z become a-z, every other byte stays.
AsciiLowercase(b) ==
    [i \in 1..Len(b) |-> IF b[i] >= 65 /\ b[i] <= 90 THEN b[i] + 32 ELSE b[i]]

\* C1: decoding the wire value obtained by encoding a Command returns that
\* Command: same variant, same stream(s) in the same order, same event bytes.
RoundTrip == (Done /\ cmd # NoCommand) => result = Ok(cmd)

RoundTripWitness ==
    /\ Done /\ cmd.variant = "Publish" /\ ~IsUtf8(cmd.event)
    /\ result.ok /\ result.cmd.event = cmd.event

\* C2: publish followed by any number of elements other than two fails with
\* InvalidNumberOfArguments { expected: 2 } whatever those elements hold, and
\* a Publish command is returned only for exactly two further elements.
PublishArity ==
    (Done /\ HasName) =>
        /\ (IsCaseVariant(Name, lit_publish) /\ NArgs # 2)
              => result = Err(InvalidNumberOfArguments(2))
        /\ (result.ok /\ result.cmd.variant = "Publish") => NArgs = 2

PublishArityWitness ==
    /\ Done /\ HasName /\ IsCaseVariant(Name, lit_publish)
    /\ NArgs = 3 /\ ~IsUtf8(Arg(1))
    /\ result.err.kind = "InvalidNumberOfArguments"

\* C3: a command name that is valid UTF-8 and, once lowercased by the
\* ASCII-only rule, neither "publish" nor "subscribe" fails with
\* UnknownCommand carrying the name lowercased by the ASCII-only rule.
UnknownCommandAsciiLowercase ==
    (Done /\ HasName /\ IsUtf8(Name)
          /\ AsciiLowercase(Name) \notin {lit_publish, lit_subscribe})
        => result = Err(UnknownCommand(AsciiLowercase(Name)))

\* C4: decoding the same array with its command name in another case of the
\* same ASCII letters returns the same result, Command or error.
CaseInsensitive == (Done /\ prev.set) => result = prev.result

CaseInsensitiveWitness ==
    /\ Done /\ prev.set /\ result.ok /\ result.cmd.variant = "Publish"
    /\ Name # lit_publish /\ prev.value.items[1].bytes # lit_publish

\* C5 as stated: InvalidStream carries exactly the error value the stream
\* parser returned, on the publish path (StreamName::from_str) and on the
\* subscribe path (Stream::from_str).
InvalidStreamUnwrapped ==
    (Done /\ HasName /\ result.err.kind = "InvalidStream") =>
        /\ command = lit_publish
              => result.err.stream = StreamNameFromStr(Arg(1)).err
        /\ command = lit_subscribe
              => \E i \in 1..NArgs :
                    /\ \A j \in 1..(i - 1) : ~BadArg(j)
                    /\ BadArg(i)
                    /\ result.err.stream = StreamFromStr(Arg(i)).err

\* C5 amended: on the subscribe path InvalidStream carries exactly the
\* ParseStreamError that Stream::from_str returned; on the publish path it
\* carries ParseStreamError::StreamNameError wrapping, unchanged, the
\* StreamNameError that StreamName::from_str returned.
InvalidStreamCause ==
    (Done /\ HasName /\ result.err.kind = "InvalidStream") =>
        /\ command = lit_publish
              => /\ ~StreamNameFromStr(Arg(1)).ok
                 /\ result.err.stream.type = "ParseStreamError"
                 /\ result.err.stream.variant = "StreamNameError"
                 /\ result.err.stream.inner = <<StreamNameFromStr(Arg(1)).err>>
        /\ command = lit_subscribe
              => \E i \in 1..NArgs :
                    /\ \A j \in 1..(i - 1) : ~BadArg(j)
                    /\ BadArg(i)
                    /\ result.err.stream = StreamFromStr(Arg(i)).err

InvalidStreamCauseWitness ==
    /\ Done /\ HasName /\ command = lit_publish
    /\ result.err.kind = "InvalidStream"
    /\ StreamNameFromStr(Arg(1)).err.variant = "ContainsColon"

\* C6: InvalidUtf8String is returned when the command name, the stream name
\* of a two-argument publish, or a subscribe argument with no failing element
\* before it is not valid UTF-8, and in no other case; the event of a publish
\* with a valid stream name is returned byte for byte, whatever it holds.
Utf8Validation ==
    (Done /\ HasName) =>
        /\ ~IsUtf8(Name) => result = Err(InvalidUtf8String(from_utf8(Name)))
        /\ (IsCaseVariant(Name, lit_publish) /\ NArgs = 2) =>
              /\ ~IsUtf8(Arg(1)) => result = Err(InvalidUtf8String(from_utf8(Arg(1))))
              /\ (IsUtf8(Arg(1)) /\ StreamNameFromStr(Arg(1)).ok)
                    => /\ result.ok
                       /\ result.cmd.variant = "Publish"
                       /\ result.cmd.event = Arg(2)
        /\ IsCaseVariant(Name, lit_subscribe) =>
              \A i \in 1..NArgs :
                  (~IsUtf8(Arg(i)) /\ \A j \in 1..(i - 1) : ~BadArg(j))
                      => result = Err(InvalidUtf8String(from_utf8(Arg(i))))
        /\ result.err.kind = "InvalidUtf8String" =>
              \/ ~IsUtf8(Name)
              \/ IsCaseVariant(Name, lit_publish) /\ NArgs = 2 /\ ~IsUtf8(Arg(1))
              \/ IsCaseVariant(Name, lit_subscribe) /\ \E i \in 1..NArgs : ~IsUtf8(Arg(i))

Utf8ValidationWitness ==
    /\ Done /\ HasName /\ cmd = NoCommand
    /\ IsCaseVariant(Name, lit_publish) /\ NArgs = 2
    /\ ~IsUtf8(Arg(2))
    /\ result.ok /\ result.cmd.event = Arg(2)

\* C7: InvalidRespType is returned exactly for the wire values that are not
\* an array of bulk strings, and then no element has been read as text;
\* MissingCommandName is returned exactly for the empty array.
ShapeErrors ==
    Done =>
        /\ result.err.kind = "InvalidRespType" <=> ~IsBulkArray(value)
        /\ ~IsBulkArray(value) => inspected = <<>>
        /\ result.err.kind = "MissingCommandName" <=> value = Array(<<>>)

ShapeErrorsWitness ==
    /\ Done /\ value.type = "Array" /\ Len(value.items) = 3
    /\ value.items[1] = bulk_string(lit_publish)
    /\ value.items[3].type = "Integer"
    /\ result.err.kind = "InvalidRespType"

\* C8: subscribe followed by n valid stream specifiers returns Subscribe
\* with n streams, the i-th being the parse of the i-th argument; n = 0
\* returns Subscribe with the empty list.
SubscribeOrder ==
    (Done /\ HasName /\ IsCaseVariant(Name, lit_subscribe)
          /\ \A i \in 1..NArgs : ~BadArg(i))
        => /\ result.ok
           /\ result.cmd.variant = "Subscribe"
           /\ Len(result.cmd.streams) = NArgs
           /\ \A i \in 1..NArgs : result.cmd.streams[i] = StreamFromStr(Arg(i)).val

SubscribeOrderWitness ==
    /\ Done /\ HasName /\ cmd = NoCommand /\ IsCaseVariant(Name, lit_subscribe)
    /\ NArgs = 2 /\ Arg(1) # Arg(2)
    /\ result.ok /\ Len(result.cmd.streams) = 2

\* The canonical wire form of a Command.
IsCanonical(v, c) ==
    /\ IsBulkArray(v)
    /\ c.variant = "Publish" =>
          /\ Len(v.items) = 3
          /\ v.items[1].bytes = lit_publish
          /\ v.items[2].bytes = c.stream
          /\ v.items[3].bytes = c.event
    /\ c.variant = "Subscribe" =>
          /\ Len(v.items) = 1 + Len(c.streams)
          /\ v.items[1].bytes = lit_subscribe
          /\ \A i \in 1..Len(c.streams) : v.items[i + 1].bytes = to_string(c.streams[i])

\* C9: encoding a Command always gives its canonical form: three bulk
\* strings "publish", stream, event for Publish, and "subscribe" followed by
\* each specifier's text in list order for Subscribe; so the re-encoding of a
\* decoded Command starts with the lowercase literal whatever the case of the
\* decoded name.
CanonicalEncoding ==
    /\ (cmd # NoCommand /\ pc # "into") => IsCanonical(value, cmd)
    /\ pc = "encoded" =>
          /\ IsCanonical(out, result.cmd)
          /\ out.items[1].bytes \in {lit_publish, lit_subscribe}

CanonicalEncodingWitness ==
    /\ pc = "encoded" /\ cmd = NoCommand
    /\ Name # lit_publish /\ IsCaseVariant(Name, lit_publish)
    /\ out.items[1].bytes = lit_publish
    /\ Len(out.items) = 3

\* C10: the elements are read left to right and reading stops at the first
\* failure: the arm is chosen when only the command name has been read, an
\* invalid or unknown name fails with nothing else read, subscribe returns the
\* error of its leftmost offending argument having read nothing after it, and
\* a failing call returns no Command.
LeftToRight ==
    /\ \A i \in 1..Len(inspected) : \A j \in 1..Len(inspected) :
          i < j => inspected[i] < inspected[j]
    /\ pc = "match" => inspected = <<1>>
    /\ (Done /\ HasName /\ (~IsUtf8(Name) \/ result.err.kind = "UnknownCommand"))
          => /\ inspected = <<1>>
             /\ result.err.kind \in {"InvalidUtf8String", "UnknownCommand"}
    /\ (Done /\ HasName /\ IsCaseVariant(Name, lit_subscribe)) =>
          \A i \in 1..NArgs :
              (BadArg(i) /\ \A j \in 1..(i - 1) : ~BadArg(j))
                  => /\ inspected = [k \in 1..(i + 1) |-> k]
                     /\ result = IF ~IsUtf8(Arg(i))
                                 THEN Err(InvalidUtf8String(from_utf8(Arg(i))))
                                 ELSE Err(InvalidStream(StreamFromStr(Arg(i)).err))
    /\ (Done /\ result.err.kind # "None") => (~result.ok /\ result.cmd = NoCommand)

LeftToRightWitness ==
    /\ Done /\ HasName /\ IsCaseVariant(Name, lit_subscribe)
    /\ NArgs = 3
    /\ ~BadArg(1) /\ IsUtf8(Arg(2)) /\ ~StreamFromStr(Arg(2)).ok /\ ~IsUtf8(Arg(3))
    /\ result.err.kind = "InvalidStream"

====
